---- MODULE Spec2Model ----
(***************************************************************************)
(* Model of the knowledge-graph backend of src/main.py: the three JSON     *)
(* endpoints /api/graph, /api/search and /api/ask_question, the helper     *)
(* run_cypher with its scoped store session, and the two clients of the    *)
(* external text-generation API.                                           *)
(*                                                                         *)
(* Every handler is an `async def` that never awaits, so the event loop    *)
(* runs one request at a time from its first line to its response: the     *)
(* model has one request in flight, whose position is pc.                  *)
(*                                                                         *)
(* Strings the code computes on (names, q, the model's message content)    *)
(* are sequences of one-character strings; exception messages, which the   *)
(* code only concatenates, are TLA+ strings.                               *)
(***************************************************************************)
EXTENDS Integers, Sequences, FiniteSets, TLC

VARIABLES
    store,          \* the graph store's edges, in the store's traversal order
    pc,             \* position of the request in flight ("idle": none)
    req,            \* the request in flight, or the last one: [id, ep, q, limit]
    reqCount,       \* requests received so far
    content,        \* choices[0].message.content of the query-generation reply
    cypher_query,   \* ask_question's local cypher_query
    query,          \* the query and parameters handed to run_cypher
    result,         \* outcome of session.run: [ok, rows, msg]
    kg_records,     \* ask_question's local kg_records
    synthPayload,   \* what get_answer_from_kg was called with: [called, data]
    response,       \* the HTTP response of the last finished request
    sessions,       \* store sessions opened so far: sid -> [open, users]
    curSid,         \* the session of the run_cypher call in progress (0: none)
    steps,          \* what the request in flight did, in order
    exc,            \* the exception raised in the request in flight: [raised, step, msg]
    answer,         \* ask_question's local answer
    store0          \* the store's content when the process started

vars == <<store, pc, req, reqCount, content, cypher_query, query, result,
          kg_records, synthPayload, response, sessions, curSid, steps, exc,
          answer, store0>>

---------------------------------------------------------------------------
(* Bounds of the model *)

MaxStoreLen == 2        \* edges in an enumerated store
MaxQLen == 2            \* characters of a search keyword
MaxLimit == 3           \* largest limit passed to /api/graph
MaxRequests == 2        \* requests in one behaviour
MaxContentLen == 5      \* characters of a message content (specification SpecStrip)

(* Program constants *)

SearchLimit == 100      \* LIMIT 100 of the keyword search
DefaultLimit == 300     \* limit: int = 300
MinQLen == 1            \* Query(..., min_length=1)

---------------------------------------------------------------------------
(* Strings *)

RECURSIVE SeqsUpTo(_, _)
SeqsUpTo(S, n) ==
    IF n = 0 THEN {<<>>}
    ELSE LET shorter == SeqsUpTo(S, n - 1)
         IN  shorter \cup {Append(s, c) : s \in {t \in shorter : Len(t) = n - 1}, c \in S}

Whitespace == {" "}
\* the backquote character (written "#": the lexer of TLA+ strings rejects a backquote)
Backtick == "#"
Fence == <<Backtick, Backtick, Backtick>>

\* Cypher's toLower (and Python's str.lower) on one character
LowerChar(c) ==
    CASE c = "A" -> "a"
      [] c = "B" -> "b"
      [] c = "C" -> "c"
      [] OTHER -> c

toLower(s) == [i \in 1..Len(s) |-> LowerChar(s[i])]

\* Cypher's CONTAINS on two strings: sub occurs in s as a contiguous run
Contains(s, sub) ==
    \E i \in 0..(Len(s) - Len(sub)) :
        \A j \in 1..Len(sub) : s[i + j] = sub[j]

\* str.strip(): drop leading and trailing whitespace
RECURSIVE LStrip(_)
LStrip(s) ==
    IF s # <<>> /\ Head(s) \in Whitespace THEN LStrip(Tail(s)) ELSE s

RECURSIVE RStrip(_)
RStrip(s) ==
    IF s # <<>> /\ s[Len(s)] \in Whitespace
    THEN RStrip(SubSeq(s, 1, Len(s) - 1))
    ELSE s

Strip(s) == RStrip(LStrip(s))

\* str.replace(three backquotes, ''): left to right, non-overlapping occurrences
RECURSIVE RemoveFences(_)
RemoveFences(s) ==
    IF Len(s) < 3 THEN s
    ELSE IF SubSeq(s, 1, 3) = Fence THEN RemoveFences(SubSeq(s, 4, Len(s)))
    ELSE <<Head(s)>> \o RemoveFences(Tail(s))

---------------------------------------------------------------------------
(* Data model *)

\* n.name of a node that has no name property (Cypher null, Python None)
Null == <<"null">>

NodeNames == {<<"A", "b">>, <<"c">>, Null}
Relations == {"CATALYZES"}

\* one row of the two browsing queries: source, target, relation
Edge(s, t) == [source |-> s, target |-> t, relation |-> "CATALYZES"]

\* the edges a store of the model is made of: a keyword can hit the source
\* only, the target only, both or neither; an edge can be a loop; an end can
\* have no name
Edges ==
    { Edge(<<"A", "b">>, <<"c">>),
      Edge(<<"c">>, <<"A", "b">>),
      Edge(<<"c">>, <<"c">>),
      Edge(<<"A", "b">>, <<"A", "b">>),
      Edge(Null, <<"A", "b">>) }

Repeat(e, n) == [i \in 1..n |-> e]

\* stores the model starts from: every short store, and the stores that hold
\* the edge c -> c and then one edge more often than the keyword search's LIMIT
Stores ==
    SeqsUpTo(Edges, MaxStoreLen)
        \cup {<<Edge(<<"c">>, <<"c">>)>> \o Repeat(e, SearchLimit + 1) : e \in Edges}

QChars == {"a", "B"}
Missing == [present |-> FALSE, value |-> <<>>]
Given(s) == [present |-> TRUE, value |-> s]
\* the q parameter of a request: absent, or any short string (the empty one too)
QParams == {Missing} \cup {Given(s) : s \in SeqsUpTo(QChars, MaxQLen)}
Questions == {Missing, Given(<<"a">>)}
\* the limit parameter of a request: absent (the default), or a small
\* integer, negative ones included
Limits == ((0 - 1)..MaxLimit) \cup {DefaultLimit}

\* str(e) of the exceptions the collaborators raise
StoreDown == <<"d", "o", "w", "n">>
SyntaxError == <<"s", "y", "n", "t", "a", "x">>
BadLimit == <<"l", "i", "m", "i", "t">>
LLMErrors == {<<>>, <<"n", "e", "t">>, <<"k", "e", "y">>}

\* message contents the external model returns for query generation: "M" stands
\* for a reading statement (MATCH ... RETURN ...), "D" for a writing one
\* (MATCH (n) DETACH DELETE n)
LLMContents ==
    { <<"M">>,
      Fence \o <<"M">> \o Fence,
      Fence \o <<" ", "D", " ">> \o Fence,
      <<"D">>,
      <<>>,
      <<Backtick, "M">> }

\* message contents the external model returns for answer synthesis
AnswerContents == {<<>>, <<"o", "k">>, <<" ", "o", "k", " ">>}

NoQuery == [kind |-> "none", limit |-> 0, q |-> <<>>, text |-> <<>>]
NoResult == [ok |-> TRUE, rows |-> <<>>, msg |-> <<>>]
NoPayload == [called |-> FALSE, data |-> <<>>]
NoException == [raised |-> FALSE, step |-> "none", msg |-> <<>>]
Raised(step, msg) == [raised |-> TRUE, step |-> step, msg |-> msg]
NoRequest == [id |-> 0, ep |-> "none", q |-> Missing, limit |-> 0]
NoResponse ==
    [status |-> 0, kind |-> "none", nodes |-> <<>>, links |-> <<>>, answer |-> <<>>]

---------------------------------------------------------------------------
(* The graph store executing a query (session.run, line 32) *)

Take(s, n) == SubSeq(s, 1, IF n < Len(s) THEN n ELSE Len(s))

\* toLower(n.name) CONTAINS toLower($q); on a null name it is null, not true
Hit(n, q) == n # Null /\ Contains(toLower(n), toLower(q))

\* faulty variant of SelectRows: the WHERE clause is lost
SelectAllRows(s, q) == s

\* the WHERE clause of the keyword search, applied in traversal order
SelectRows(s, q) ==
    SelectSeq(s, LAMBDA e : Hit(e.source, q) \/ Hit(e.target, q))

\* faulty variant of FullGraphRows: the LIMIT clause is lost
FullGraphRowsNoLimit(st, limit) == st

\* MATCH (n)-[r]->(m) RETURN ... LIMIT $limit
FullGraphRows(st, limit) == Take(st, limit)

\* MATCH (n)-[r]->(m) WHERE toLower(n.name) CONTAINS toLower($q) OR ... LIMIT 100
SearchRows(st, q) == Take(SelectRows(st, q), SearchLimit)

\* a query text without its whitespace
Tokens(text) == SelectSeq(text, LAMBDA c : c \notin Whitespace)

\* what the store does with a query: the rows it returns or the error it
\* raises, and the store afterwards
Execute(qry, st) ==
    CASE qry.kind = "full" ->
            IF qry.limit < 0
            THEN [ok |-> FALSE, rows |-> <<>>, msg |-> BadLimit, store |-> st]
            ELSE [ok |-> TRUE, rows |-> FullGraphRows(st, qry.limit),
                  msg |-> <<>>, store |-> st]
      [] qry.kind = "search" ->
            [ok |-> TRUE, rows |-> SearchRows(st, qry.q), msg |-> <<>>, store |-> st]
      [] OTHER ->
            \* the generated text, run verbatim in an auto-commit transaction
            \* of a session with the default (write) access mode
            IF Tokens(qry.text) = <<"M">>
            THEN [ok |-> TRUE, rows |-> st, msg |-> <<>>, store |-> st]
            ELSE IF Tokens(qry.text) = <<"D">>
            THEN [ok |-> TRUE, rows |-> <<>>, msg |-> <<>>, store |-> <<>>]
            ELSE [ok |-> FALSE, rows |-> <<>>, msg |-> SyntaxError, store |-> st]

---------------------------------------------------------------------------
(* Pure parts of the handlers *)

\* line 72: cypher_query.strip().replace(fence, '')
CleanQuery(c) == RemoveFences(Strip(c))

\* lines 141-144 / 164-167: the set of names occurring in the links
NodeNamesOf(links) ==
    {links[i].source : i \in 1..Len(links)} \cup {links[i].target : i \in 1..Len(links)}

\* line 146 / 169: the names of a set in some iteration order, each once
NodeLists(S) ==
    {f \in [1..Cardinality(S) -> S] : \A i, j \in 1..Cardinality(S) : f[i] = f[j] => i = j}

ErrorPrefix == <<"E", "r", "r", "o", "r", ":", " ">>

\* line 187: f"Error: {str(e)}"
ErrorAnswer(msg) == ErrorPrefix \o msg

\* faulty variant of ValidSearchQ: min_length is lost
ValidSearchQPresent(q) == q.present

\* line 151: Query(..., min_length=1) on a required parameter
ValidSearchQ(q) == q.present /\ Len(q.value) >= MinQLen

\* line 174: q: str, a required parameter without further constraint
ValidQuestion(q) == q.present

---------------------------------------------------------------------------
(* Responses *)

Projection(nodes, links) ==
    [status |-> 200, kind |-> "projection", nodes |-> nodes, links |-> links,
     answer |-> <<>>]

\* JSONResponse(content={"answer": answer}), status 200 unless given
AnswerResponse(status, text) ==
    [status |-> status, kind |-> "answer", nodes |-> <<>>, links |-> <<>>,
     answer |-> text]

\* the framework's reply to a request whose parameters fail validation
ValidationError ==
    [status |-> 422, kind |-> "validation", nodes |-> <<>>, links |-> <<>>,
     answer |-> <<>>]

\* the framework's reply to an exception that leaves a handler
UnhandledError ==
    [status |-> 500, kind |-> "unhandled", nodes |-> <<>>, links |-> <<>>,
     answer |-> <<>>]

---------------------------------------------------------------------------
(* Sessions *)

\* driver.session(): a session of its own for every call
NewSessionId == Len(sessions) + 1

Opened(ss, sid, rid) ==
    IF sid \in DOMAIN ss
    THEN [ss EXCEPT ![sid] = [open |-> TRUE, users |-> @.users \cup {rid}]]
    ELSE Append(ss, [open |-> TRUE, users |-> {rid}])

Closed(ss, sid) == [ss EXCEPT ![sid].open = FALSE]

OpenSessions == {sid \in DOMAIN sessions : sessions[sid].open}

---------------------------------------------------------------------------
(* Initial state: the process has started, no request has arrived *)

Init ==
    /\ store \in Stores
    /\ store0 = store
    /\ pc = "idle"
    /\ req = NoRequest
    /\ reqCount = 0
    /\ content = <<>>
    /\ cypher_query = <<>>
    /\ query = NoQuery
    /\ result = NoResult
    /\ kg_records = <<>>
    /\ synthPayload = NoPayload
    /\ response = NoResponse
    /\ sessions = <<>>
    /\ curSid = 0
    /\ steps = <<>>
    /\ exc = NoException
    /\ answer = <<>>

\* a request arrives: the locals of its handler are fresh
Arrive(ep, q, limit) ==
    /\ pc = "idle"
    /\ reqCount < MaxRequests
    /\ reqCount' = reqCount + 1
    /\ req' = [id |-> reqCount + 1, ep |-> ep, q |-> q, limit |-> limit]
    /\ content' = <<>>
    /\ cypher_query' = <<>>
    /\ result' = NoResult
    /\ kg_records' = <<>>
    /\ synthPayload' = NoPayload
    /\ steps' = <<>>
    /\ exc' = NoException
    /\ answer' = <<>>
    /\ UNCHANGED <<store, sessions, curSid, store0>>

\* GET /api/graph?limit=..., up to the call of run_cypher (lines 128-138)
GetFullGraph ==
    \E limit \in Limits :
        /\ Arrive("graph", Missing, limit)
        /\ query' = [kind |-> "full", limit |-> limit, q |-> <<>>, text |-> <<>>]
        /\ response' = NoResponse
        /\ pc' = "rc_open"

\* GET /api/search?q=..., up to the call of run_cypher (lines 151-162); a q
\* that fails validation is answered by the framework and the handler never runs
SearchSubgraph ==
    \E q \in QParams :
        /\ Arrive("search", q, 0)
        /\ IF ValidSearchQ(q)
           THEN /\ query' = [kind |-> "search", limit |-> 0, q |-> q.value,
                             text |-> <<>>]
                /\ response' = NoResponse
                /\ pc' = "rc_open"
           ELSE /\ query' = NoQuery
                /\ response' = ValidationError
                /\ pc' = "idle"

\* GET /api/ask_question?q=..., entering the try block (lines 174-176)
AskQuestion ==
    \E q \in Questions :
        /\ Arrive("ask", q, 0)
        /\ query' = NoQuery
        /\ IF ValidQuestion(q)
           THEN /\ response' = NoResponse
                /\ pc' = "generate"
           ELSE /\ response' = ValidationError
                /\ pc' = "idle"

\* step 1, line 177: generate_cypher_query(q) returns the cleaned content of
\* the model's reply (a member of C), and line 180 calls run_cypher with it
\* and no parameters
GenerateQuery(C) ==
    /\ pc = "generate"
    /\ \E c \in C :
        /\ content' = c
        /\ cypher_query' = CleanQuery(c)
        /\ query' = [kind |-> "generated", limit |-> 0, q |-> <<>>,
                     text |-> CleanQuery(c)]
    /\ steps' = Append(steps, "generate")
    /\ pc' = "rc_open"
    /\ UNCHANGED <<store, req, reqCount, result, kg_records, synthPayload,
                   response, sessions, curSid, exc, answer, store0>>

GenerateQueryOk == GenerateQuery(LLMContents)

\* faulty variant of GenerateQueryFail: the failed call is tried again
GenerateQueryRetry ==
    /\ pc = "generate"
    /\ Len(steps) < 2
    /\ steps' = Append(steps, "generate")
    /\ pc' = "generate"
    /\ UNCHANGED <<store, req, reqCount, content, cypher_query, query, result,
                   kg_records, synthPayload, response, sessions, curSid, exc,
                   answer, store0>>

\* step 1 raises: the HTTP call fails, or the reply lacks the expected shape
GenerateQueryFail ==
    /\ pc = "generate"
    /\ \E msg \in LLMErrors : exc' = Raised("generate", msg)
    /\ steps' = Append(steps, "generate")
    /\ pc' = "raised"
    /\ UNCHANGED <<store, req, reqCount, content, cypher_query, query, result,
                   kg_records, synthPayload, response, sessions, curSid, answer,
                   store0>>

\* run_cypher, line 31: with driver.session() as session
SessionOpen ==
    /\ pc = "rc_open"
    /\ curSid' = NewSessionId
    /\ sessions' = Opened(sessions, NewSessionId, req.id)
    /\ steps' = Append(steps, "open")
    /\ pc' = "rc_run"
    /\ UNCHANGED <<store, req, reqCount, content, cypher_query, query, result,
                   kg_records, synthPayload, response, exc, answer, store0>>

\* run_cypher, lines 32-33: session.run(query, params) and the reading of its
\* records; the store is unreachable, or it executes the query
SessionRun ==
    /\ pc = "rc_run"
    /\ \E up \in BOOLEAN :
        IF up
        THEN LET out == Execute(query, store)
             IN  /\ result' = [ok |-> out.ok, rows |-> out.rows, msg |-> out.msg]
                 /\ store' = out.store
        ELSE /\ result' = [ok |-> FALSE, rows |-> <<>>, msg |-> StoreDown]
             /\ store' = store
    /\ steps' = Append(steps, "run")
    /\ pc' = "rc_exit"
    /\ UNCHANGED <<req, reqCount, content, cypher_query, query, kg_records,
                   synthPayload, response, sessions, curSid, exc, answer, store0>>

\* faulty variant of SessionExit: no with block, so the session is closed on
\* the normal path only
SessionExitLeak ==
    /\ pc = "rc_exit"
    /\ sessions' = IF result.ok THEN Closed(sessions, curSid) ELSE sessions
    /\ curSid' = 0
    /\ steps' = Append(steps, "close")
    /\ IF result.ok
       THEN pc' = "returned" /\ exc' = exc
       ELSE pc' = "raised" /\ exc' = Raised("execute", result.msg)
    /\ UNCHANGED <<store, req, reqCount, content, cypher_query, query, result,
                   kg_records, synthPayload, response, answer, store0>>

\* run_cypher, leaving the with block: the session is closed, then the rows
\* are returned or the exception goes on to the caller
SessionExit ==
    /\ pc = "rc_exit"
    /\ sessions' = Closed(sessions, curSid)
    /\ curSid' = 0
    /\ steps' = Append(steps, "close")
    /\ IF result.ok
       THEN pc' = "returned" /\ exc' = exc
       ELSE pc' = "raised" /\ exc' = Raised("execute", result.msg)
    /\ UNCHANGED <<store, req, reqCount, content, cypher_query, query, result,
                   kg_records, synthPayload, response, answer, store0>>

\* lines 141-147 and 164-170: the projection of the returned links
BuildProjection ==
    /\ pc = "returned"
    /\ req.ep \in {"graph", "search"}
    /\ \E nodes \in NodeLists(NodeNamesOf(result.rows)) :
        response' = Projection(nodes, result.rows)
    /\ pc' = "idle"
    /\ UNCHANGED <<store, req, reqCount, content, cypher_query, query, result,
                   kg_records, synthPayload, sessions, curSid, steps, exc,
                   answer, store0>>

\* faulty variant of BrowseError: the handler catches the error as
\* ask_question does
BrowseErrorCaught ==
    /\ pc = "raised"
    /\ req.ep \in {"graph", "search"}
    /\ response' = AnswerResponse(500, ErrorAnswer(exc.msg))
    /\ pc' = "idle"
    /\ UNCHANGED <<store, req, reqCount, content, cypher_query, query, result,
                   kg_records, synthPayload, sessions, curSid, steps, exc,
                   answer, store0>>

\* the browsing handlers have no try block: the store's error leaves them
BrowseError ==
    /\ pc = "raised"
    /\ req.ep \in {"graph", "search"}
    /\ response' = UnhandledError
    /\ pc' = "idle"
    /\ UNCHANGED <<store, req, reqCount, content, cypher_query, query, result,
                   kg_records, synthPayload, sessions, curSid, steps, exc,
                   answer, store0>>

\* faulty variant of SynthesizeOk: an empty result is answered as a failure,
\* without calling the model
SynthesizeOkUnlessEmpty ==
    /\ pc = "returned"
    /\ req.ep = "ask"
    /\ kg_records' = result.rows
    /\ IF result.rows = <<>>
       THEN /\ synthPayload' = synthPayload
            /\ answer' = answer
            /\ response' = AnswerResponse(500, ErrorAnswer(<<>>))
            /\ steps' = steps
       ELSE /\ synthPayload' = [called |-> TRUE, data |-> result.rows]
            /\ \E a \in AnswerContents :
                /\ answer' = Strip(a)
                /\ response' = AnswerResponse(200, Strip(a))
            /\ steps' = Append(steps, "synthesize")
    /\ pc' = "idle"
    /\ UNCHANGED <<store, req, reqCount, content, cypher_query, query, result,
                   sessions, curSid, exc, store0>>

\* step 3, lines 180-185: kg_records is bound, get_answer_from_kg(kg_records, q)
\* returns the stripped content of the model's reply, and the answer is sent
SynthesizeOk ==
    /\ pc = "returned"
    /\ req.ep = "ask"
    /\ kg_records' = result.rows
    /\ synthPayload' = [called |-> TRUE, data |-> result.rows]
    /\ \E a \in AnswerContents :
        /\ answer' = Strip(a)
        /\ response' = AnswerResponse(200, Strip(a))
    /\ steps' = Append(steps, "synthesize")
    /\ pc' = "idle"
    /\ UNCHANGED <<store, req, reqCount, content, cypher_query, query, result,
                   sessions, curSid, exc, store0>>

\* step 3 raises: the HTTP call fails, or the reply lacks the expected shape
SynthesizeFail ==
    /\ pc = "returned"
    /\ req.ep = "ask"
    /\ kg_records' = result.rows
    /\ synthPayload' = [called |-> TRUE, data |-> result.rows]
    /\ \E msg \in LLMErrors : exc' = Raised("synthesize", msg)
    /\ steps' = Append(steps, "synthesize")
    /\ pc' = "raised"
    /\ UNCHANGED <<store, req, reqCount, content, cypher_query, query, result,
                   response, sessions, curSid, answer, store0>>

\* faulty variant of CatchAll: status_code=500 is lost
CatchAllStatusOk ==
    /\ pc = "raised"
    /\ req.ep = "ask"
    /\ response' = AnswerResponse(200, ErrorAnswer(exc.msg))
    /\ pc' = "idle"
    /\ UNCHANGED <<store, req, reqCount, content, cypher_query, query, result,
                   kg_records, synthPayload, sessions, curSid, steps, exc,
                   answer, store0>>

\* lines 186-187: the catch-all of ask_question
CatchAll ==
    /\ pc = "raised"
    /\ req.ep = "ask"
    /\ response' = AnswerResponse(500, ErrorAnswer(exc.msg))
    /\ pc' = "idle"
    /\ UNCHANGED <<store, req, reqCount, content, cypher_query, query, result,
                   kg_records, synthPayload, sessions, curSid, steps, exc,
                   answer, store0>>

Next ==
    \/ GetFullGraph
    \/ SearchSubgraph
    \/ AskQuestion
    \/ GenerateQueryOk
    \/ GenerateQueryFail
    \/ SessionOpen
    \/ SessionRun
    \/ SessionExit
    \/ BuildProjection
    \/ BrowseError
    \/ SynthesizeOk
    \/ SynthesizeFail
    \/ CatchAll

Spec == Init /\ [][Next]_vars

---------------------------------------------------------------------------
(* generate_cypher_query on every short message content *)

ContentChars == {" ", Backtick, "M", "D"}
AllContents == SeqsUpTo(ContentChars, MaxContentLen)

\* an /api/ask_question request has entered its try block
InitStrip ==
    /\ store = <<>>
    /\ store0 = <<>>
    /\ pc = "generate"
    /\ req = [id |-> 1, ep |-> "ask", q |-> Given(<<"a">>), limit |-> 0]
    /\ reqCount = 1
    /\ content = <<>>
    /\ cypher_query = <<>>
    /\ query = NoQuery
    /\ result = NoResult
    /\ kg_records = <<>>
    /\ synthPayload = NoPayload
    /\ response = NoResponse
    /\ sessions = <<>>
    /\ curSid = 0
    /\ steps = <<>>
    /\ exc = NoException
    /\ answer = <<>>

GenerateQueryAny == GenerateQuery(AllContents)

NextStrip == GenerateQueryAny

SpecStrip == InitStrip /\ [][NextStrip]_vars

---------------------------------------------------------------------------
(* Properties *)

IsPrefix(s, t) == Len(s) <= Len(t) /\ SubSeq(t, 1, Len(s)) = s
Occurs(x, s) == \E i \in 1..Len(s) : s[i] = x
Count(x, s) == Cardinality({i \in 1..Len(s) : s[i] = x})

\* q is a substring of the name, letter case ignored: some run of the name
\* is q up to case (a missing name has no substring)
CISubstring(q, name) ==
    /\ name # Null
    /\ \E i \in 1..(Len(name) + 1) : \E j \in (i - 1)..Len(name) :
        toLower(SubSeq(name, i, j)) = toLower(q)

\* the steps of one question-answering request, in the code's order
AskOrder == <<"generate", "open", "run", "close", "synthesize">>

Finished(ep) == pc = "idle" /\ req.ep = ep

\* C1: for every store content and every limit >= 0, the response of
\* GET /api/graph has at most limit links, and its nodes list holds exactly
\* the distinct source and target values of the returned links, each once.
GraphProjectionExact ==
    (Finished("graph") /\ req.limit >= 0 /\ response.status = 200) =>
        /\ response.kind = "projection"
        /\ Len(response.links) <= req.limit
        /\ \A i, j \in 1..Len(response.nodes) :
              response.nodes[i] = response.nodes[j] => i = j
        /\ \A n \in NodeNames :
              Occurs(n, response.nodes) <=>
                  \E k \in 1..Len(response.links) :
                      response.links[k].source = n \/ response.links[k].target = n

\* the limit cut the store's edges short, and a name that occurs in several
\* returned links is listed once
GraphProjectionWitness ==
    /\ Finished("graph")
    /\ response.status = 200
    /\ req.limit >= 2
    /\ Len(store) > req.limit
    /\ Len(response.links) = req.limit
    /\ Len(response.nodes) >= 2
    /\ Len(response.nodes) < 2 * Len(response.links)

\* C2: for every store content and every non-empty q, every link returned by
\* GET /api/search has q as a case-insensitive substring of its source name
\* or of its target name, and at most 100 links are returned.
SearchLinksMatch ==
    (Finished("search") /\ req.q.present /\ req.q.value # <<>>
            /\ response.status = 200) =>
        /\ response.kind = "projection"
        /\ Len(response.links) <= SearchLimit
        /\ \A k \in 1..Len(response.links) :
              \/ CISubstring(req.q.value, response.links[k].source)
              \/ CISubstring(req.q.value, response.links[k].target)

\* more than 100 edges of the store match, 100 are returned, and the store's
\* first edge, which does not match, is left out
SearchLinksWitness ==
    /\ Finished("search")
    /\ response.status = 200
    /\ Len(store) > SearchLimit + 1
    /\ Len(response.links) = SearchLimit
    /\ ~ CISubstring(req.q.value, store[1].source)
    /\ ~ CISubstring(req.q.value, store[1].target)
    /\ response.links[1] # store[1]
    /\ Occurs("A", response.links[1].source)
    /\ Occurs("a", req.q.value)

\* C3: a GET /api/search request whose q is empty or missing is rejected by
\* parameter validation before reaching the store: no session is opened and
\* no query is executed for it, and the response is a validation error, not
\* a graph projection.
EmptySearchRejected ==
    (req.ep = "search" /\ (~ req.q.present \/ req.q.value = <<>>)) =>
        /\ pc = "idle"
        /\ response.status = 422
        /\ response.kind = "validation"
        /\ response.nodes = <<>> /\ response.links = <<>>
        /\ steps = <<>>
        /\ query = NoQuery
        /\ OpenSessions = {}
        /\ \A sid \in DOMAIN sessions : req.id \notin sessions[sid].users

\* an empty q was rejected after an earlier request had used the store
EmptySearchWitness ==
    /\ req.ep = "search"
    /\ req.q = Given(<<>>)
    /\ response.status = 422
    /\ sessions # <<>>

\* C4: for GET /api/ask_question, if any of the three steps raises, the
\* response has status 500 and the answer "Error: " followed by the
\* exception's message; the status is 200 exactly when all three steps
\* succeeded, and then the answer is the synthesized answer.
AskStatusTellsFailure ==
    (Finished("ask") /\ req.q.present) =>
        /\ response.kind = "answer"
        /\ exc.raised =>
              /\ response.status = 500
              /\ response.answer = <<"E", "r", "r", "o", "r", ":", " ">> \o exc.msg
        /\ response.status = 200 <=> (~ exc.raised /\ steps = AskOrder)
        /\ response.status = 200 => response.answer = answer

\* the store rejected the generated query, and the request ended with 500
AskStatusWitness ==
    /\ Finished("ask")
    /\ exc = Raised("execute", SyntaxError)
    /\ response.status = 500
    /\ response.answer = ErrorPrefix \o SyntaxError

\* C5: when query generation and query execution succeed and the store
\* returns no rows, answer synthesis is still called, with the empty row
\* list as its data, and the endpoint returns 200 with the answer the model
\* produced.
EmptyResultSynthesized ==
    (Finished("ask") /\ Occurs("run", steps) /\ result.ok /\ result.rows = <<>>) =>
        /\ synthPayload = [called |-> TRUE, data |-> <<>>]
        /\ Occurs("synthesize", steps)
        /\ exc.raised => exc.step = "synthesize"
        /\ ~ exc.raised => response.status = 200 /\ response.answer = answer

\* a reading query found nothing in an empty store, and the answer came back
EmptyResultWitness ==
    /\ Finished("ask")
    /\ Tokens(cypher_query) = <<"M">>
    /\ store = <<>> /\ store0 = <<>>
    /\ result.ok /\ result.rows = <<>>
    /\ synthPayload.called
    /\ response.status = 200
    /\ response.answer = <<"o", "k">>

\* C6: the system is read-only against the graph store: after any sequence
\* of requests to the three endpoints, whatever query text the external
\* model returns, the store's content is what it was before.
StoreNeverWritten == store = store0

\* what the two browsing endpoints do establish: no step of a request to
\* /api/graph or /api/search changes the store
BrowsingNeverWrites == [][req'.ep \in {"graph", "search"} => store' = store]_vars

\* C7: for every message content, generate_cypher_query returns a string
\* that contains no triple backquote and has no leading or trailing
\* whitespace.
GeneratedQueryClean ==
    (pc = "rc_open" /\ req.ep = "ask") =>
        /\ ~ Contains(cypher_query, Fence)
        /\ cypher_query # <<>> =>
              /\ cypher_query[1] \notin Whitespace
              /\ cypher_query[Len(cypher_query)] \notin Whitespace

\* what line 72 does establish, for every message content: no triple
\* backquote is left, and whitespace is left at an end of the result only
\* where the stripped content had a fence at that end
FencesRemoved ==
    (pc = "rc_open" /\ req.ep = "ask") =>
        LET stripped == Strip(content)
            n == Len(cypher_query)
        IN  /\ ~ Contains(cypher_query, Fence)
            /\ (n > 0 /\ cypher_query[1] \in Whitespace) => IsPrefix(Fence, stripped)
            /\ (n > 0 /\ cypher_query[n] \in Whitespace) =>
                  /\ Len(stripped) >= 3
                  /\ SubSeq(stripped, Len(stripped) - 2, Len(stripped)) = Fence

\* C8: within one /api/ask_question request the steps run in the order
\* generate, execute, synthesize, each at most once and without retry: a
\* step is performed only after the one before it succeeded, and after a
\* failure no later step is performed (at most two calls of the external
\* model and one store query).
AskStepsInOrder ==
    req.ep = "ask" =>
        /\ IsPrefix(steps, AskOrder)
        /\ Count("generate", steps) + Count("synthesize", steps) <= 2
        /\ Count("run", steps) <= 1
        /\ Occurs("open", steps) =>
              /\ query.kind = "generated"
              /\ query.text = cypher_query
              /\ ~ (exc.raised /\ exc.step = "generate")
        /\ Occurs("synthesize", steps) => result.ok
        /\ (exc.raised /\ exc.step = "generate") => steps = <<"generate">>
        /\ (exc.raised /\ exc.step = "execute") => steps = SubSeq(AskOrder, 1, 4)
        /\ (exc.raised /\ exc.step = "synthesize") => steps = AskOrder

\* query generation failed, and the request ended without touching the store
AskStepsWitness ==
    /\ Finished("ask")
    /\ exc.raised /\ exc.step = "generate"
    /\ steps = <<"generate">>
    /\ response.status = 500
    /\ reqCount = 2

\* C9: when the store fails during GET /api/graph or GET /api/search, the
\* handler does not catch the error: no projection and no "Error: ..."
\* answer is returned, the request ends as an unhandled server error; only
\* the question-answering endpoint turns a store failure into a body of its
\* own.
BrowseErrorUnhandled ==
    (pc = "idle" /\ exc.raised /\ exc.step = "execute") =>
        IF req.ep \in {"graph", "search"}
        THEN /\ response.status = 500
             /\ response.kind = "unhandled"
             /\ response.nodes = <<>> /\ response.links = <<>>
             /\ response.answer = <<>>
        ELSE /\ response.kind = "answer"
             /\ IsPrefix(ErrorPrefix, response.answer)

\* the store was unreachable during a keyword search
BrowseErrorWitness ==
    /\ Finished("search")
    /\ exc = Raised("execute", StoreDown)
    /\ response.kind = "unhandled"

\* C10: every call of run_cypher opens one session of its own and closes it
\* before the call returns or raises; after any sequence of completed
\* requests no session is open, and no session is shared by two requests.
SessionsScoped ==
    /\ OpenSessions = (IF pc \in {"rc_run", "rc_exit"} THEN {curSid} ELSE {})
    /\ \A sid \in DOMAIN sessions : Cardinality(sessions[sid].users) = 1
    /\ Cardinality({sid \in DOMAIN sessions : req.id \in sessions[sid].users})
          = Count("open", steps)
    /\ Count("open", steps) =
          (IF pc \in {"rc_run", "rc_exit"} THEN 1 ELSE 0) + Count("close", steps)

\* a second request's query was rejected, and both sessions are closed
SessionsWitness ==
    /\ pc = "raised"
    /\ exc.step = "execute"
    /\ Len(sessions) = 2
    /\ sessions[1].users # sessions[2].users
    /\ OpenSessions = {}

====
